---------------------------- MODULE Spec2Model ----------------------------
(***************************************************************************)
(* Model of scm/webhook.go: the webhook event records, the Repository()    *)
(* accessor every event implements, and the tagged JSON codec of           *)
(* WebhookUnmarshaler (MarshalJSON / UnmarshalJSON).                       *)
(*                                                                         *)
(* Go values are modelled as tagged records (k = "string", "bool", "int",  *)
(* "struct", "slice", "nil"); JSON documents as tagged records (kind =     *)
(* "jstring", "jbool", "jnumber", "jnull", "jarray", "jobject", and        *)
(* "invalid" for bytes that are not JSON).  An interface value is a pair   *)
(* of a dynamic type and a value; a dynamic type is a named type or a      *)
(* pointer to one.                                                         *)
(***************************************************************************)
EXTENDS Integers, Sequences, FiniteSets, TLC

\* ------------------------------------------------------------------ bounds
NumCallers  == 2   \* concurrent callers, each with a wrapper of its own
MaxCommits  == 2   \* longest PushHook.Commits sequence
MaxRepoCalls == 2  \* Repository() calls made on one event

Callers == 1..NumCallers

\* ------------------------------------------------------------- Go values
GoStr(s)    == [k |-> "string", s |-> s]
GoBool(b)   == [k |-> "bool", b |-> b]
GoInt(n)    == [k |-> "int", n |-> n]
GoStruct(f) == [k |-> "struct", f |-> f]
GoSlice(q)  == [k |-> "slice", isNil |-> FALSE, q |-> q]
GoNilSlice  == [k |-> "slice", isNil |-> TRUE, q |-> <<>>]
GoNil       == [k |-> "nil"]

\* Records declared in other files of the package, reduced to one field.
RepositoryOf(name) == GoStruct([FullName |-> GoStr(name)])
UserOf(login)      == GoStruct([Login |-> GoStr(login)])
ReferenceOf(name)  == GoStruct([Name |-> GoStr(name)])
CommitOf(sha)      == GoStruct([Sha |-> GoStr(sha)])
IssueOf(title)     == GoStruct([Title |-> GoStr(title)])
CommentOf(body)    == GoStruct([Body |-> GoStr(body)])
PullRequestOf(t)   == GoStruct([Title |-> GoStr(t)])
ReviewOf(body)     == GoStruct([Body |-> GoStr(body)])

ZeroRepository == RepositoryOf("")
Repositories   == {ZeroRepository, RepositoryOf("octocat/hello")}
Strings        == {"", "refs/heads/main"}
Actions        == {GoInt(0), GoInt(1)}

Label == GoStruct([URL |-> GoStr(""), Name |-> GoStr(""),
                   Description |-> GoStr(""), Color |-> GoStr("")])

PushCommit(id) ==
    GoStruct([ID |-> GoStr(id), Message |-> GoStr(""), Added |-> GoNilSlice,
              Removed |-> GoNilSlice, Modified |-> GoNilSlice])

CommitIDs == {"c1", "c2"}

\* Commits: the nil slice and every sequence of at most MaxCommits commits.
CommitLists ==
    {GoNilSlice} \cup
    UNION {{GoSlice([i \in 1..n |-> PushCommit(ids[i])]) : ids \in [1..n -> CommitIDs]}
           : n \in 0..MaxCommits}

PushHook(ref, repo, commits) ==
    GoStruct([Ref |-> GoStr(ref), BaseRef |-> GoStr(""), Repo |-> repo,
              Before |-> GoStr(""), After |-> GoStr(""),
              Created |-> GoBool(FALSE), Deleted |-> GoBool(FALSE),
              Forced |-> GoBool(FALSE), Compare |-> GoStr(""),
              Commits |-> commits, Commit |-> CommitOf(""),
              Sender |-> UserOf(""), GUID |-> GoStr("")])

BranchHook(repo, action) ==
    GoStruct([Ref |-> ReferenceOf(""), Repo |-> repo, Action |-> action,
              Sender |-> UserOf("")])

TagHook(repo, action) ==
    GoStruct([Ref |-> ReferenceOf(""), Repo |-> repo, Action |-> action,
              Sender |-> UserOf("")])

IssueHook(repo, action) ==
    GoStruct([Action |-> action, Repo |-> repo, Issue |-> IssueOf(""),
              Sender |-> UserOf("")])

IssueCommentHook(repo, action) ==
    GoStruct([Action |-> action, Repo |-> repo, Issue |-> IssueOf(""),
              Comment |-> CommentOf(""), Sender |-> UserOf("")])

PullRequestHookBranchFrom(from) == GoStruct([From |-> GoStr(from)])

PullRequestHookBranch(repo) ==
    GoStruct([Ref |-> PullRequestHookBranchFrom(""),
              Sha |-> PullRequestHookBranchFrom(""), Repo |-> repo])

PullRequestHookChanges(repo) == GoStruct([Base |-> PullRequestHookBranch(repo)])

PullRequestHook(repo, baseRepo) ==
    GoStruct([Action |-> GoInt(0), Repo |-> repo, Label |-> Label,
              PullRequest |-> PullRequestOf(""), Sender |-> UserOf(""),
              Changes |-> PullRequestHookChanges(baseRepo), GUID |-> GoStr("")])

PullRequestCommentHook(repo, action) ==
    GoStruct([Action |-> action, Repo |-> repo, PullRequest |-> PullRequestOf(""),
              Comment |-> CommentOf(""), Sender |-> UserOf("")])

ReviewCommentHook(repo, action) ==
    GoStruct([Action |-> action, Repo |-> repo, PullRequest |-> PullRequestOf(""),
              Review |-> ReviewOf("")])

DeployHook(repo, task) ==
    GoStruct([Data |-> GoNil, Desc |-> GoStr(""), Ref |-> ReferenceOf(""),
              Repo |-> repo, Sender |-> UserOf(""), Target |-> GoStr(""),
              TargetURL |-> GoStr(""), Task |-> GoStr(task)])

\* ---------------------------------------------- dynamic types, interfaces
Named(n)     == [ptr |-> FALSE, name |-> n]
PointerTo(n) == [ptr |-> TRUE, name |-> n]

Variants == {"PushHook", "BranchHook", "DeployHook", "TagHook", "IssueHook",
             "IssueCommentHook", "PullRequestHook", "PullRequestCommentHook",
             "ReviewCommentHook"}

\* An interface value: dynamic type and value.  NilWebhook is the nil interface.
Iface(t, v) == [type |-> t, val |-> v]
NilWebhook  == Iface(Named("nil"), GoNil)

\* The Webhook interface is Repository() Repository, and the nine methods
\* have pointer receivers: the values a Webhook can hold are pointers to
\* the nine records (and pointers to whatever else implements Repository()).
Webhook ==
    {Iface(PointerTo("PushHook"), PushHook(s, r, cs)) :
        s \in Strings, r \in Repositories, cs \in CommitLists}
    \cup {Iface(PointerTo("BranchHook"), BranchHook(r, a)) : r \in Repositories, a \in Actions}
    \cup {Iface(PointerTo("TagHook"), TagHook(r, a)) : r \in Repositories, a \in Actions}
    \cup {Iface(PointerTo("DeployHook"), DeployHook(r, t)) : r \in Repositories, t \in Strings}
    \cup {Iface(PointerTo("IssueHook"), IssueHook(r, a)) : r \in Repositories, a \in Actions}
    \cup {Iface(PointerTo("IssueCommentHook"), IssueCommentHook(r, a)) :
            r \in Repositories, a \in Actions}
    \cup {Iface(PointerTo("PullRequestHook"), PullRequestHook(r, b)) :
            r \in Repositories, b \in Repositories}
    \cup {Iface(PointerTo("PullRequestCommentHook"), PullRequestCommentHook(r, a)) :
            r \in Repositories, a \in Actions}
    \cup {Iface(PointerTo("ReviewCommentHook"), ReviewCommentHook(r, a)) :
            r \in Repositories, a \in Actions}

\* A Webhook implementation outside the nine (any other type with Repository()).
OtherWebhook == {Iface(PointerTo("otherHook"), GoStruct([Repo |-> r])) : r \in Repositories}

WebhookUnmarshaler(type, webhook) == [Type |-> type, Webhook |-> webhook]

IsVariant(w) == w.type.ptr /\ w.type.name \in Variants

\* Mutant of Repository: a pull request event answers with the repository of
\* its Changes.Base record instead of its own Repo.
RepositoryOfChangesBase(h) ==
    IF h.type = PointerTo("PullRequestHook")
    THEN h.val.f.Changes.f.Base.f.Repo
    ELSE h.val.f.Repo

\* func (h *XHook) Repository() Repository { return h.Repo }
Repository(h) == h.val.f.Repo


\* ------------------------------------------------------------------- JSON
JStr(s)  == [kind |-> "jstring", s |-> s]
JBool(b) == [kind |-> "jbool", b |-> b]
JNum(n)  == [kind |-> "jnumber", n |-> n]
JNull    == [kind |-> "jnull"]
JArr(q)  == [kind |-> "jarray", q |-> q]
JObj(m)  == [kind |-> "jobject", m |-> m]
JInvalid == [kind |-> "invalid"]   \* bytes that are not a JSON document
NoBytes  == [kind |-> "nil"]       \* the nil []byte

NoMembers == [k \in {} |-> JNull]

\* errors
NoErr                 == "nil"
SyntaxError           == "json.SyntaxError"
UnmarshalTypeError    == "json.UnmarshalTypeError"
InvalidUnmarshalError == "json.InvalidUnmarshalError"
ErrNotConcrete ==
    "WebhookUnmarshaler.Webhook does not implement a concrete Webhook type"

\* encoding/json.Marshal of a Go value: a struct becomes an object with one
\* member per field, a nil slice becomes null, any other slice an array.
RECURSIVE JsonMarshal(_)
JsonMarshal(v) ==
    CASE v.k = "string" -> JStr(v.s)
      [] v.k = "bool"   -> JBool(v.b)
      [] v.k = "int"    -> JNum(v.n)
      [] v.k = "nil"    -> JNull
      [] v.k = "struct" -> JObj([f \in DOMAIN v.f |-> JsonMarshal(v.f[f])])
      [] v.k = "slice"  -> IF v.isNil THEN JNull
                           ELSE JArr([i \in DOMAIN v.q |-> JsonMarshal(v.q[i])])

\* Go maps and pointers to json.RawMessage
GoMap(m) == [isNil |-> FALSE, m |-> m]
NilMap   == [isNil |-> TRUE, m |-> NoMembers]
NilPtr   == [kind |-> "nilptr"]
PtrTo(raw) == [kind |-> "ptr", raw |-> raw]

\* json.Unmarshal(b, &objMap), objMap a nil map[string]*json.RawMessage.
\* Returns the error and the map.
JsonUnmarshalRawMap(b) ==
    CASE b.kind = "invalid" -> [err |-> SyntaxError, map |-> NilMap]
      [] b.kind = "jnull"   -> [err |-> NoErr, map |-> NilMap]
      [] b.kind = "jobject" ->
            [err |-> NoErr,
             map |-> GoMap([k \in DOMAIN b.m |->
                             IF b.m[k].kind = "jnull" THEN NilPtr ELSE PtrTo(b.m[k])])]
      [] OTHER -> [err |-> UnmarshalTypeError, map |-> NilMap]

\* json.Unmarshal(raw, &webhookMap), webhookMap a nil map[string]string;
\* raw is a valid document.  A member that is not a string is a type error
\* (a null member is stored as "").
JsonUnmarshalStringMap(raw) ==
    CASE raw.kind = "jnull" -> [err |-> NoErr, map |-> NilMap]
      [] raw.kind = "jobject" ->
            [err |-> IF \A k \in DOMAIN raw.m : raw.m[k].kind \in {"jstring", "jnull"}
                     THEN NoErr ELSE UnmarshalTypeError,
             map |-> GoMap([k \in {j \in DOMAIN raw.m : raw.m[j].kind \in {"jstring", "jnull"}} |->
                             IF raw.m[k].kind = "jstring" THEN raw.m[k].s ELSE ""])]
      [] OTHER -> [err |-> UnmarshalTypeError, map |-> NilMap]

\* webhookMap["type"]: a missing key (or a nil map) reads as "".
MapIndex(map, key) == IF key \in DOMAIN map.m THEN map.m[key] ELSE ""

\* json.Unmarshal(raw, h) with h a nil pointer: json refuses a nil target.
JsonUnmarshalNilPointer(raw) == InvalidUnmarshalError

\* --------------------------------------------------------- MarshalJSON
\* The type assertions of MarshalJSON in source order, each with the token
\* its branch stores under "type".
MarshalBranches ==
    << [assert |-> Named("PushHook"),               token |-> "pushHook"],
       [assert |-> Named("BranchHook"),             token |-> "branchHook"],
       [assert |-> Named("DeployHook"),             token |-> "deployHook"],
       [assert |-> Named("TagHook"),                token |-> "tagHook"],
       [assert |-> Named("IssueHook"),              token |-> "issueHook"],
       [assert |-> Named("IssueCommentHook"),       token |-> "issueCommentHook"],
       [assert |-> Named("PullRequestHook"),        token |-> "pullRequestHook"],
       [assert |-> Named("PullRequestCommentHook"), token |-> "pullRequestCommentHook"],
       [assert |-> Named("ReviewCommentHook"),      token |-> "reviewCommentHook"] >>

KnownTokens == {MarshalBranches[i].token : i \in DOMAIN MarshalBranches}

\* The variant a token stands for (the discriminator table, token -> variant).
DiscriminatorTable(token) ==
    MarshalBranches[CHOOSE i \in DOMAIN MarshalBranches :
                        MarshalBranches[i].token = token].assert.name

\* genericWebhook.(T): holds when the dynamic type of the value is exactly T.
TypeAssert(w, t) == w.type = t

\* json.Marshal(marshaledHook), marshaledHook = {"type": token, "webhook": w}
MarshalEnvelope(token, w) ==
    JObj([k \in {"type", "webhook"} |->
            IF k = "type" THEN JStr(token) ELSE JsonMarshal(w.val)])

Returned(bytes, err) == [status |-> "returned", bytes |-> bytes, err |-> err]
Pending  == [status |-> "pending", bytes |-> NoBytes, err |-> NoErr]

\* func (wu *WebhookUnmarshaler) MarshalJSON() ([]byte, error)
MarshalJSON(wu) ==
    LET hit == {i \in DOMAIN MarshalBranches :
                    TypeAssert(wu.Webhook, MarshalBranches[i].assert)}
    IN  IF hit # {}
        THEN LET i == CHOOSE j \in hit : \A l \in hit : j <= l
             IN  Returned(MarshalEnvelope(MarshalBranches[i].token, wu.Webhook), NoErr)
        ELSE Returned(NoBytes, ErrNotConcrete)

\* ------------------------------------------------------- UnmarshalJSON
\* The record type each branch of UnmarshalJSON declares for h (var h *T),
\* by the token the branch tests.
UnmarshalTarget(token) ==
    CASE token = "pushHook"               -> "PushHook"
      [] token = "branchHook"             -> "BranchHook"
      [] token = "deployHook"             -> "DeployHook"
      [] token = "tagHook"                -> "TagHook"
      [] token = "issueHook"              -> "IssueHook"
      [] token = "issueCommentHook"       -> "IssueHook"
      [] token = "pullRequestHook"        -> "IssueHook"
      [] token = "pullRequestCommentHook" -> "IssueHook"
      [] token = "reviewCommentHook"      -> "IssueHook"

UnmarshalTokens ==
    {"pushHook", "branchHook", "deployHook", "tagHook", "issueHook",
     "issueCommentHook", "pullRequestHook", "pullRequestCommentHook",
     "reviewCommentHook"}

\* Outcome of a call of UnmarshalJSON: how it ended, the error it returned
\* and the wrapper it leaves.
Outcome(status, err, wu) == [status |-> status, err |-> err, wu |-> wu]

\* Lines 254-258: parse the outer object into objMap.
UnmarshalEnvelope(b) == JsonUnmarshalRawMap(b)

\* Lines 260-350, entered with the parse of the outer object done.
\* rawMessage is the local of line 260; *rawMessage on a nil pointer panics.
UnmarshalDispatch(rawMessage, wu) ==
    IF rawMessage = NilPtr
    THEN Outcome("panicked", NoErr, wu)
    ELSE LET wm  == JsonUnmarshalStringMap(rawMessage.raw)
             tok == MapIndex(wm.map, "type")
         IN  IF wm.err # NoErr
             THEN Outcome("returned", wm.err, wu)
             ELSE IF tok \in UnmarshalTokens
                  THEN \* var h *T; json.Unmarshal(*rawMessage, h)
                       LET err == JsonUnmarshalNilPointer(rawMessage.raw)
                       IN  IF err # NoErr
                           THEN Outcome("returned", err, wu)
                           ELSE Outcome("returned", NoErr,
                                    [wu EXCEPT !.Webhook =
                                        Iface(PointerTo(UnmarshalTarget(tok)), GoNil)])
                  ELSE Outcome("returned", NoErr, wu)

\* The value of rawMessage when line 262 dereferences it: declared on line
\* 260 and never assigned.
RawMessageLocal(objMap) == NilPtr

\* func (wu *WebhookUnmarshaler) UnmarshalJSON(b []byte) error
UnmarshalJSON(wu, b) ==
    LET env == UnmarshalEnvelope(b)
    IN  IF env.err # NoErr
        THEN Outcome("returned", env.err, wu)
        ELSE UnmarshalDispatch(RawMessageLocal(env.map), wu)


\* ------------------------------------------------------- inputs of calls
Absent == [kind |-> "absent"]

\* The outer object with the given "type" and "webhook" members (or without).
Envelope(typeMember, webhookMember) ==
    JObj([k \in ({"type"} \ (IF typeMember = Absent THEN {"type"} ELSE {}))
               \cup ({"webhook"} \ (IF webhookMember = Absent THEN {"webhook"} ELSE {}))
          |-> IF k = "type" THEN typeMember ELSE webhookMember])

\* One populated event of the variant a token stands for.
SampleWebhook(token) ==
    CHOOSE w \in Webhook :
        /\ w.type = PointerTo(DiscriminatorTable(token))
        /\ w.val.f.Repo # ZeroRepository
        /\ (w.type.name = "PushHook" =>
                /\ w.val.f.Commits = GoSlice(<<PushCommit("c1"), PushCommit("c2")>>)
                /\ w.val.f.Ref = GoStr("refs/heads/main"))

SamplePayload(token) == JsonMarshal(SampleWebhook(token).val)

\* A payload no variant can take: Repo is a record in all nine, here a number.
MismatchPayload == JObj([k \in {"Repo"} |-> JNum(1)])

\* A payload that carries a "type" member of its own.
TaggedPayload == JObj([k \in {"type"} |-> JStr("pushHook")])

TypeMembers == {Absent, JNum(1)} \cup {JStr(t) : t \in KnownTokens \cup {"madeUpHook"}}

WebhookMembers(typeMember) ==
    {Absent, JObj(NoMembers), MismatchPayload, TaggedPayload}
    \cup (IF typeMember.kind = "jstring" /\ typeMember.s \in KnownTokens
          THEN {SamplePayload(typeMember.s)} ELSE {})

Documents ==
    {JInvalid, JNull, JArr(<<>>), JStr("pushHook")}
    \cup UNION {{Envelope(t, p) : p \in WebhookMembers(t)} : t \in TypeMembers}

\* What the wrapper holds before a call of UnmarshalJSON.
PriorWebhooks == {NilWebhook, SampleWebhook("tagHook")}

Call(op, wu, b) == [op |-> op, wu |-> wu, b |-> b]
NoCall == Call("none", WebhookUnmarshaler("", NilWebhook), NoBytes)

MarshalCalls ==
    {Call("MarshalJSON", WebhookUnmarshaler("", w), NoBytes) :
        w \in Webhook \cup OtherWebhook \cup {NilWebhook}}

UnmarshalCalls ==
    {Call("UnmarshalJSON", WebhookUnmarshaler("", w), d) :
        w \in PriorWebhooks, d \in Documents}

RepositoryCalls ==
    {Call("Repository", WebhookUnmarshaler("", w), NoBytes) :
        w \in Webhook \cup OtherWebhook}

Calls == MarshalCalls \cup UnmarshalCalls \cup RepositoryCalls

\* The calls made side by side under SpecConc.
ConcCalls ==
    { Call("MarshalJSON", WebhookUnmarshaler("", SampleWebhook("pushHook")), NoBytes),
      Call("MarshalJSON", WebhookUnmarshaler("", NilWebhook), NoBytes),
      Call("UnmarshalJSON", WebhookUnmarshaler("", NilWebhook), JInvalid),
      Call("UnmarshalJSON", WebhookUnmarshaler("", NilWebhook),
           Envelope(JStr("pushHook"), SamplePayload("pushHook"))),
      Call("UnmarshalJSON", WebhookUnmarshaler("", SampleWebhook("tagHook")),
           Envelope(JStr("madeUpHook"), JObj(NoMembers))),
      Call("Repository", WebhookUnmarshaler("", SampleWebhook("pullRequestHook")), NoBytes) }

\* ------------------------------------------------------------------ state
VARIABLES
    call,        \* call[c]: the call caller c makes (operation, wrapper, bytes)
    wu,          \* wu[c]: caller c's WebhookUnmarshaler
    pc,          \* pc[c]: "idle", "call", "parsed" (UnmarshalJSON past line 258), "done"
    objMap,      \* objMap[c]: local of UnmarshalJSON (line 254)
    rawMessage,  \* rawMessage[c]: local of UnmarshalJSON (line 260)
    ret,         \* ret[c]: how the call ended, with the bytes and error returned
    repos,       \* repos[c]: what the Repository() calls of c returned, in order
    overlapped   \* callers whose call another caller's step fell into

vars == <<call, wu, pc, objMap, rawMessage, ret, repos, overlapped>>

InitLocals ==
    /\ wu = [c \in Callers |-> call[c].wu]
    /\ pc = [c \in Callers |-> IF call[c] = NoCall THEN "idle" ELSE "call"]
    /\ objMap = [c \in Callers |-> NilMap]
    /\ rawMessage = [c \in Callers |-> NilPtr]
    /\ ret = [c \in Callers |-> Pending]
    /\ repos = [c \in Callers |-> <<>>]
    /\ overlapped = {}

\* One caller makes one call, any of Calls.
Init ==
    /\ call \in {[c \in Callers |-> IF c = 1 THEN k ELSE NoCall] : k \in Calls}
    /\ InitLocals

\* Every caller makes a call of ConcCalls, each on a wrapper of its own.
InitConc ==
    /\ call \in [Callers -> ConcCalls]
    /\ InitLocals

\* The callers in the middle of a call when c takes a step.
Overlap(c) == overlapped \cup {d \in Callers \ {c} : pc[d] = "parsed"}

\* Mutant of DoMarshalJSON: the call records its outcome in the wrapper's Type.
DoMarshalJSONSetsType(c) ==
    /\ pc[c] = "call"
    /\ call[c].op = "MarshalJSON"
    /\ ret' = [ret EXCEPT ![c] = MarshalJSON(wu[c])]
    /\ wu' = [wu EXCEPT ![c].Type = "unknown"]
    /\ pc' = [pc EXCEPT ![c] = "done"]
    /\ overlapped' = Overlap(c)
    /\ UNCHANGED <<call, objMap, rawMessage, repos>>

\* A call of MarshalJSON, lines 188-250.
DoMarshalJSON(c) ==
    /\ pc[c] = "call"
    /\ call[c].op = "MarshalJSON"
    /\ ret' = [ret EXCEPT ![c] = MarshalJSON(wu[c])]
    /\ pc' = [pc EXCEPT ![c] = "done"]
    /\ overlapped' = Overlap(c)
    /\ UNCHANGED <<call, wu, objMap, rawMessage, repos>>

\* UnmarshalJSON, lines 253-261: parse the outer object, return its error,
\* declare rawMessage.
DoUnmarshalEnvelope(c) ==
    /\ pc[c] = "call"
    /\ call[c].op = "UnmarshalJSON"
    /\ LET env == UnmarshalEnvelope(call[c].b)
       IN  /\ objMap' = [objMap EXCEPT ![c] = env.map]
           /\ IF env.err # NoErr
              THEN /\ ret' = [ret EXCEPT ![c] = Returned(NoBytes, env.err)]
                   /\ pc' = [pc EXCEPT ![c] = "done"]
                   /\ UNCHANGED rawMessage
              ELSE /\ rawMessage' = [rawMessage EXCEPT ![c] = RawMessageLocal(env.map)]
                   /\ pc' = [pc EXCEPT ![c] = "parsed"]
                   /\ UNCHANGED ret
    /\ overlapped' = Overlap(c)
    /\ UNCHANGED <<call, wu, repos>>

\* UnmarshalJSON, lines 262-350: read the payload, dispatch, return.
DoUnmarshalDispatch(c) ==
    /\ pc[c] = "parsed"
    /\ LET o == UnmarshalDispatch(rawMessage[c], wu[c])
       IN  /\ wu' = [wu EXCEPT ![c] = o.wu]
           /\ ret' = [ret EXCEPT ![c] =
                        [status |-> o.status, bytes |-> NoBytes, err |-> o.err]]
    /\ pc' = [pc EXCEPT ![c] = "done"]
    /\ overlapped' = Overlap(c)
    /\ UNCHANGED <<call, objMap, rawMessage, repos>>

\* A call of Repository() on the caller's event, lines 177-185.
DoRepository(c) ==
    /\ pc[c] = "call"
    /\ call[c].op = "Repository"
    /\ Len(repos[c]) < MaxRepoCalls
    /\ repos' = [repos EXCEPT ![c] = Append(@, Repository(wu[c].Webhook))]
    /\ pc' = [pc EXCEPT ![c] =
                IF Len(repos[c]) + 1 = MaxRepoCalls THEN "done" ELSE "call"]
    /\ overlapped' = Overlap(c)
    /\ UNCHANGED <<call, wu, objMap, rawMessage, ret>>

Next ==
    \E c \in Callers :
        \/ DoMarshalJSON(c)
        \/ DoUnmarshalEnvelope(c)
        \/ DoUnmarshalDispatch(c)
        \/ DoRepository(c)

Spec     == Init /\ [][Next]_vars
SpecConc == InitConc /\ [][Next]_vars


\* ----------------------------------------------------------------- claims
\* Vocabulary of the claims.
Finished(c, op) == pc[c] = "done" /\ call[c].op = op

IsEnvelope(b) == b.kind = "jobject"

HasTypeToken(b) ==
    IsEnvelope(b) /\ "type" \in DOMAIN b.m /\ b.m["type"].kind = "jstring"

\* The envelope carries one of the nine tokens.
KnownEnvelope(b) == HasTypeToken(b) /\ b.m["type"].s \in KnownTokens

\* A well-formed envelope with a token outside the nine, or with no "type".
UnknownEnvelope(b) ==
    /\ IsEnvelope(b)
    /\ \/ "type" \notin DOMAIN b.m
       \/ HasTypeToken(b) /\ b.m["type"].s \notin KnownTokens

JsonErrors == {SyntaxError, UnmarshalTypeError, InvalidUnmarshalError}

\* C1 (round trip): once MarshalJSON has returned for a wrapper holding an
\* event of one of the nine variants, it has returned bytes without error,
\* and UnmarshalJSON of those bytes into an empty wrapper returns without
\* error and leaves an event of the same variant with equal fields (Commits
\* in the same order).
C1_RoundTrip ==
    \A c \in Callers :
        Finished(c, "MarshalJSON") /\ IsVariant(call[c].wu.Webhook) =>
            /\ ret[c].status = "returned"
            /\ ret[c].err = NoErr
            /\ LET d == UnmarshalJSON(WebhookUnmarshaler("", NilWebhook), ret[c].bytes)
               IN  /\ d.status = "returned"
                   /\ d.err = NoErr
                   /\ d.wu.Webhook = call[c].wu.Webhook

C3_ClosedSet ==
    \A c \in Callers :
        Finished(c, "MarshalJSON") =>
            /\ ret[c].status = "returned"
            /\ IF IsVariant(call[c].wu.Webhook)
               THEN ret[c].err = NoErr /\ ret[c].bytes # NoBytes
               ELSE ret[c].err # NoErr /\ ret[c].bytes = NoBytes

\* C4 (envelope shape of Encode): every output MarshalJSON returns without
\* error is an object with exactly the members "type" and "webhook", "type"
\* the token of the event's variant and "webhook" the event's fields.
C4_EnvelopeShape ==
    \A c \in Callers :
        Finished(c, "MarshalJSON") /\ ret[c].err = NoErr =>
            /\ ret[c].bytes.kind = "jobject"
            /\ DOMAIN ret[c].bytes.m = {"type", "webhook"}
            /\ ret[c].bytes.m["type"].kind = "jstring"
            /\ DiscriminatorTable(ret[c].bytes.m["type"].s) = call[c].wu.Webhook.type.name
            /\ ret[c].bytes.m["webhook"] = JsonMarshal(call[c].wu.Webhook.val)

\* The case of C4: a call of MarshalJSON has returned bytes without error.
C4_SuccessfulEncode ==
    \E c \in Callers : Finished(c, "MarshalJSON") /\ ret[c].err = NoErr

\* The case of C2 at run time: a call of UnmarshalJSON has returned without error.
C2_SuccessfulDecode ==
    \E c \in Callers : Finished(c, "UnmarshalJSON") /\ ret[c].status = "returned"
                           /\ ret[c].err = NoErr

\* C5 (unknown discriminator rejection): UnmarshalJSON of a well-formed
\* envelope whose "type" is none of the nine tokens, or is missing, returns a
\* non-nil error and leaves the wrapper's Webhook as it was.
C5_UnknownRejected ==
    \A c \in Callers :
        Finished(c, "UnmarshalJSON") /\ UnknownEnvelope(call[c].b) =>
            /\ ret[c].status = "returned"
            /\ ret[c].err # NoErr
            /\ wu[c].Webhook = call[c].wu.Webhook

\* C6 (no partial success): every call of UnmarshalJSON returns, either with
\* a nil error and the wrapper's Webhook set to a non-nil event of one of the
\* nine variants, or with a non-nil error and the Webhook as before the call.
C6_NoPartialSuccess ==
    \A c \in Callers :
        Finished(c, "UnmarshalJSON") =>
            /\ ret[c].status = "returned"
            /\ \/ /\ ret[c].err = NoErr
                  /\ IsVariant(wu[c].Webhook)
                  /\ wu[c].Webhook.val # GoNil
               \/ /\ ret[c].err # NoErr
                  /\ wu[c].Webhook = call[c].wu.Webhook

\* C7 (payload mismatch rejection): UnmarshalJSON of an envelope with one of
\* the nine tokens and a payload its variant cannot take returns a non-nil
\* error that is the JSON error, and leaves the wrapper's Webhook as it was.
C7_MismatchRejected ==
    \A c \in Callers :
        /\ Finished(c, "UnmarshalJSON")
        /\ KnownEnvelope(call[c].b)
        /\ "webhook" \in DOMAIN call[c].b.m
        /\ call[c].b.m["webhook"] = MismatchPayload
        => /\ ret[c].status = "returned"
           /\ ret[c].err \in JsonErrors
           /\ wu[c].Webhook = call[c].wu.Webhook

\* C8 (Repository projection): every call of Repository() on an event, of any
\* variant and with any Repo (the zero value included), returns the event's
\* Repo field, repeated calls return the same, and the event is unchanged.
C8_RepositoryProjection ==
    \A c \in Callers :
        call[c].op = "Repository" =>
            /\ \A i \in DOMAIN repos[c] : repos[c][i] = call[c].wu.Webhook.val.f.Repo
            /\ wu[c] = call[c].wu

\* Witness of C8: an event with the zero Repo and one whose Changes.Base.Repo
\* differs from its Repo have each answered Repository() twice.
C8_Witness ==
    \E c \in Callers :
        /\ call[c].op = "Repository"
        /\ Len(repos[c]) >= 2
        /\ call[c].wu.Webhook.type = PointerTo("PullRequestHook")
        /\ call[c].wu.Webhook.val.f.Repo = ZeroRepository
        /\ call[c].wu.Webhook.val.f.Changes.f.Base.f.Repo # ZeroRepository

C10_PayloadIsWebhookMember ==
    \A c \in Callers :
        /\ pc[c] = "parsed"
        /\ IsEnvelope(call[c].b)
        /\ "webhook" \in DOMAIN call[c].b.m
        => /\ "webhook" \in DOMAIN objMap[c].m
           /\ rawMessage[c] = objMap[c].m["webhook"]

=============================================================================
